---------------------------- MODULE Spec2Model ----------------------------
(***************************************************************************)
(* Model of the Kamino liquidation bot: the health estimate (health.rs),   *)
(* candidate selection and instruction building (kamino.rs), transaction   *)
(* assembly (util.rs), bundle submission (jito.rs) and the main loop       *)
(* (main.rs).                                                              *)
(***************************************************************************)
EXTENDS Integers, Sequences, FiniteSets, TLC

VARIABLES
    pc,          \* position of main: "loop_top", "find", "for_cand", "assemble",
                 \* "send", "sleep", "exit_ok", "exit_err"
    once,        \* cli.once
    dry_run,     \* cli.dry_run
    cycle,       \* number of loop iterations started
    blockhash,   \* main's local `blockhash` of the current iteration
    accs,        \* the last answer of get_program_accounts
    candidates,  \* main's local `candidates`
    idx,         \* position of the `for cand in candidates.iter()` loop
    fresh,       \* the answer of get_account inside build_liquidation_ix, while the
                 \* candidate it was read for is being processed
    built,       \* the result of build_liquidation_ix (locals and instruction), likewise
    tx,          \* the result of build_tx_with_tip, likewise
    attempts,    \* per-iteration trace of the candidates processed and their outcome
    sent,        \* trace of the calls of JitoSender::send in this iteration and the
                 \* one before it
    rpc_err,     \* which cycle-level RPC call failed, if any
    h_obl,       \* input of estimate_health (health specification)
    h_out,       \* result of estimate_health (health specification)
    bh_hist,     \* calls of fetch_latest_blockhash so far, and the iteration in
                 \* which `blockhash` was fetched
    a_ixs        \* input `ixs` of build_tx_with_tip (assembly specification)

vars == <<pc, once, dry_run, cycle, blockhash, accs, candidates, idx, fresh,
          built, tx, attempts, sent, rpc_err, h_obl, h_out, bh_hist, a_ixs>>

-----------------------------------------------------------------------------
(* Bounds of the model.                                                    *)

MaxAccounts == 2
MaxCycles == 2
MaxLegs == 2

-----------------------------------------------------------------------------
(* u64 amounts and f64 values.  TLC integers are 32 bits wide, so a u64 is *)
(* kept as three limbs <<l2, l1, l0>> of 24 bits, l2 the most significant. *)

LIMB == 2^24

Big(n) == <<0, n \div LIMB, n % LIMB>>

BNorm(x) ==
    LET t1 == x[2] + (x[3] \div LIMB)
    IN  <<x[1] + (t1 \div LIMB), t1 % LIMB, x[3] % LIMB>>

BAdd(x, y) == BNorm(<<x[1] + y[1], x[2] + y[2], x[3] + y[3]>>)

BMul(x, k) == BNorm(<<x[1] * k, x[2] * k, x[3] * k>>)

BLess(x, y) ==
    \/ x[1] < y[1]
    \/ x[1] = y[1] /\ x[2] < y[2]
    \/ x[1] = y[1] /\ x[2] = y[2] /\ x[3] < y[3]

BLeq(x, y) == ~BLess(y, x)

BZero == <<0, 0, 0>>

\* u64 division by a small divisor, truncating (long division over the limbs)
BDiv(x, k) ==
    LET t1 == (x[1] % k) * LIMB + x[2]
        t0 == (t1 % k) * LIMB + x[3]
    IN  <<x[1] \div k, t1 \div k, t0 \div k>>

RECURSIVE BitLen(_)
BitLen(n) == IF n = 0 THEN 0 ELSE 1 + BitLen(n \div 2)

BBitLen(x) ==
    IF x[1] > 0 THEN 48 + BitLen(x[1])
    ELSE IF x[2] > 0 THEN 24 + BitLen(x[2])
    ELSE BitLen(x[3])

\* significand width of an f64
F64_MANTISSA_DIGITS == 53

\* Rounding of a non-negative value to the nearest f64, ties to even: what
\* `as f64` and every f64 addition and multiplication do.
RoundF64(x) ==
    LET s == BBitLen(x) - F64_MANTISSA_DIGITS
    IN  IF s <= 0 THEN x
        ELSE LET unit == 2^s
                 low  == x[3] % unit
                 down == <<x[1], x[2], x[3] - low>>
                 up   == BNorm(<<x[1], x[2], x[3] - low + unit>>)
                 odd  == (x[3] \div unit) % 2 = 1
             IN  IF 2 * low < unit THEN down
                 ELSE IF 2 * low > unit THEN up
                 ELSE IF odd THEN up ELSE down

\* `amount as f64`
AsF64(a) == RoundF64(a)

\* `.map(|l| l.amount as f64).sum::<f64>()`: a left fold of f64 additions
RECURSIVE SumF64From(_, _, _)
SumF64From(legs, i, acc) ==
    IF i > Len(legs) THEN acc
    ELSE SumF64From(legs, i + 1, RoundF64(BAdd(acc, AsF64(legs[i].amount))))

SumF64(legs) == SumF64From(legs, 1, BZero)

-----------------------------------------------------------------------------
(* health.rs                                                               *)

\* An f64 result is kept as a fraction: num quarters over den units, that is
\* the value num / (4 * den); inf stands for f64::INFINITY.  The final f64
\* division is correctly rounded and therefore monotone and exact at 0 and 1,
\* so comparing the fraction with 1 is comparing the quotient with 1.0.
F64Infinity == [inf |-> TRUE, num |-> BZero, den |-> BZero]

F64Zero == [inf |-> FALSE, num |-> BZero, den |-> Big(1)]

\* (mutant) the haircut left out: total_deposit * 1.0
Mul075_NoHaircut(total_deposit) == RoundF64(BMul(total_deposit, 4))

\* total_deposit * 0.75, in quarters: 0.75 is exact in f64, the product is rounded
Mul075(total_deposit) == RoundF64(BMul(total_deposit, 3))

\* the early return of line 20 giving +infinity instead of 0.0
estimate_health_zero_deposit_infinite(obligation) ==
    LET total_borrow  == SumF64(obligation.borrows)
        total_deposit == SumF64(obligation.deposits)
    IN  IF BLess(BZero, total_borrow) /\ total_deposit = BZero THEN F64Infinity
        ELSE IF total_borrow = BZero THEN F64Infinity
        ELSE [inf |-> FALSE, num |-> Mul075(total_deposit), den |-> total_borrow]

estimate_health(obligation) ==
    LET total_borrow  == SumF64(obligation.borrows)
        total_deposit == SumF64(obligation.deposits)
    IN  IF BLess(BZero, total_borrow) /\ total_deposit = BZero THEN F64Zero
        ELSE IF total_borrow = BZero THEN F64Infinity
        ELSE [inf |-> FALSE, num |-> Mul075(total_deposit), den |-> total_borrow]

\* `h < 1.0`
LessThanOne(h) == ~h.inf /\ BLess(h.num, BMul(h.den, 4))


-----------------------------------------------------------------------------
(* Identities and raw accounts.                                            *)

DefaultPubkey == "11111111111111111111111111111111"   \* Pubkey::default()

MARKET == "market"              \* cli.market, the target market
OTHER_MARKET == "other_market"
Owner == "owner"
Payer == "payer"                \* cfg.payer
TipAccountPubkey == "tip"       \* tip_acc.pubkey
TokenProgram == "spl_token"
AccountKeys == <<"acct1", "acct2", "acct3", "acct4">>

Leg(r, n) == [reserve |-> r, amount |-> Big(n)]

Obl(m, b, d) == [lending_market |-> m, owner |-> Owner, borrows |-> b, deposits |-> d]

NoObligation == Obl("none", <<>>, <<>>)

\* The bytes of an account, by what the decoder makes of them.
Raw(isReserve, isObligation, obl) ==
    [reserve_ok |-> isReserve, obligation_ok |-> isObligation, obligation |-> obl]

ObligationPool ==
    { Obl(MARKET, <<Leg("rA", 1000)>>, <<Leg("rB", 500)>>),
      Obl(OTHER_MARKET, <<Leg("rA", 1000)>>, <<Leg("rB", 500)>>),
      Obl(MARKET, <<Leg("rA", 1000), Leg("rB", 1000)>>, <<Leg("rB", 7), Leg("rC", 7)>>),
      Obl(MARKET, <<Leg("rA", 3)>>, <<Leg("rB", 4)>>),
      Obl(MARKET, <<Leg("rA", 1000)>>, <<>>),
      Obl(MARKET, <<Leg("rA", 7), Leg(DefaultPubkey, 1000)>>, <<Leg("rB", 500)>>),
      Obl(MARKET, <<Leg(DefaultPubkey, 1000), Leg("rA", 1000)>>, <<Leg("rB", 500)>>),
      Obl(MARKET, <<>>, <<Leg("rB", 500)>>),
      Obl(MARKET, <<Leg("rC", 7)>>, <<Leg("rA", 1)>>) }

RawPool ==
    { Raw(TRUE, FALSE, NoObligation),
      Raw(FALSE, FALSE, NoObligation),
      Raw(TRUE, TRUE, Obl(MARKET, <<Leg("rA", 1000)>>, <<Leg("rB", 500)>>)) }
    \cup { Raw(FALSE, TRUE, o) : o \in ObligationPool }

\* get_program_accounts: (pubkey, account) pairs, each key once
Keyed(datas) == [i \in 1..Len(datas) |-> [pk |-> AccountKeys[i], data |-> datas[i]]]

Snapshots == UNION { { Keyed(d) : d \in [1..n -> RawPool] } : n \in 0..MaxAccounts }

-----------------------------------------------------------------------------
(* kamino.rs                                                               *)

\* Iterator::max_by_key: the position of the maximum, the last one among
\* equal maxima; 0 stands for None (empty list).
RECURSIVE MaxFold(_, _, _)
MaxFold(legs, i, best) ==
    IF i > Len(legs) THEN best
    ELSE MaxFold(legs, i + 1, IF BLess(legs[i].amount, legs[best].amount) THEN best ELSE i)

\* (mutant) the first of equal maxima is kept
RECURSIVE MaxFoldFirst(_, _, _)
MaxFoldFirst(legs, i, best) ==
    IF i > Len(legs) THEN best
    ELSE MaxFoldFirst(legs, i + 1,
                      IF BLess(legs[best].amount, legs[i].amount) THEN i ELSE best)

max_by_key_first(legs) == IF Len(legs) = 0 THEN 0 ELSE MaxFoldFirst(legs, 2, 1)

max_by_key(legs) == IF Len(legs) = 0 THEN 0 ELSE MaxFold(legs, 2, 1)

\* `.max_by_key(|l| l.amount).map(|l| l.reserve).unwrap_or_default()`
largest_reserve(legs) ==
    IF max_by_key(legs) = 0 THEN DefaultPubkey ELSE legs[max_by_key(legs)].reserve

decode_reserve(data) == data.reserve_ok

decode_obligation(data) == data.obligation_ok

\* the classification loop: the keys pushed to `reserves`
RECURSIVE classify_reserves(_, _)
classify_reserves(as, i) ==
    IF i > Len(as) THEN <<>>
    ELSE IF decode_reserve(as[i].data)
         THEN <<as[i].pk>> \o classify_reserves(as, i + 1)
    ELSE classify_reserves(as, i + 1)

\* a classification loop that tries the obligation decoding first
RECURSIVE classify_obligations_first(_, _)
classify_obligations_first(as, i) ==
    IF i > Len(as) THEN <<>>
    ELSE IF decode_obligation(as[i].data)
         THEN <<[pk |-> as[i].pk, obl |-> as[i].data.obligation]>>
              \o classify_obligations_first(as, i + 1)
    ELSE classify_obligations_first(as, i + 1)

\* the classification loop: the (pk, obligation) pairs, reserves tried first
RECURSIVE classify_obligations(_, _)
classify_obligations(as, i) ==
    IF i > Len(as) THEN <<>>
    ELSE IF decode_reserve(as[i].data) THEN classify_obligations(as, i + 1)
    ELSE IF decode_obligation(as[i].data)
         THEN <<[pk |-> as[i].pk, obl |-> as[i].data.obligation]>>
              \o classify_obligations(as, i + 1)
    ELSE classify_obligations(as, i + 1)

\* (mutant) the check of the chosen keys against Pubkey::default() left out
select_candidate_unchecked(pk, obl, market) ==
    IF obl.lending_market # market THEN <<>>
    ELSE IF ~LessThanOne(estimate_health(obl)) THEN <<>>
    ELSE <<[obligation |-> pk, market |-> market,
            repay_reserve |-> largest_reserve(obl.borrows),
            withdraw_reserve |-> largest_reserve(obl.deposits)]>>

\* the body of the candidate loop for one obligation: what it pushes
select_candidate(pk, obl, market) ==
    IF obl.lending_market # market THEN <<>>
    ELSE IF ~LessThanOne(estimate_health(obl)) THEN <<>>
    ELSE LET repay_reserve    == largest_reserve(obl.borrows)
             withdraw_reserve == largest_reserve(obl.deposits)
         IN  IF repay_reserve # DefaultPubkey /\ withdraw_reserve # DefaultPubkey
             THEN <<[obligation |-> pk, market |-> market,
                     repay_reserve |-> repay_reserve,
                     withdraw_reserve |-> withdraw_reserve]>>
             ELSE <<>>

\* (mutant) candidates inserted at the front instead of pushed at the back
RECURSIVE select_candidates_front(_, _, _)
select_candidates_front(obls, i, market) ==
    IF i > Len(obls) THEN <<>>
    ELSE select_candidates_front(obls, i + 1, market)
         \o select_candidate(obls[i].pk, obls[i].obl, market)

RECURSIVE select_candidates(_, _, _)
select_candidates(obls, i, market) ==
    IF i > Len(obls) THEN <<>>
    ELSE select_candidate(obls[i].pk, obls[i].obl, market)
         \o select_candidates(obls, i + 1, market)

\* find_liquidation_candidates, given the answer of get_program_accounts
find_liquidation_candidates(as, market) ==
    select_candidates(classify_obligations(as, 1), 1, market)

\* (mutant) the repayment rounded up instead of truncated
repay_amount_ceil(amount) == BDiv(BAdd(amount, Big(4)), 5)

\* `largest_borrow.amount / 5`
repay_amount(amount) == BDiv(amount, 5)

NoIx == [program |-> "none", name |-> "none", accounts |-> <<>>, args |-> <<>>]

NoLeg == [reserve |-> DefaultPubkey, amount |-> BZero]

BuildErr(e) ==
    [ok |-> FALSE, err |-> e, ix |-> NoIx, largest_borrow |-> NoLeg, largest_deposit |-> NoLeg]

\* build_liquidation_ix without the check of the deposit list
build_liquidation_ix_unchecked_deposits(cand, read, builder_ok) ==
    IF ~read.rpc_ok THEN BuildErr("Failed to fetch obligation")
    ELSE IF ~decode_obligation(read.data) THEN BuildErr("Failed to decode obligation")
    ELSE LET obl == read.data.obligation
         IN  IF max_by_key(obl.borrows) = 0 THEN BuildErr("No borrows")
             ELSE IF ~builder_ok THEN BuildErr("build")
             ELSE LET largest_borrow  == obl.borrows[max_by_key(obl.borrows)]
                      liquidity       == repay_amount(largest_borrow.amount)
                      largest_deposit == IF max_by_key(obl.deposits) = 0 THEN NoLeg
                                         ELSE obl.deposits[max_by_key(obl.deposits)]
                  IN  [ok |-> TRUE, err |-> "",
                       ix |-> [program |-> "kamino_lending",
                               name |-> "liquidate_obligation",
                               accounts |-> <<cand.market, cand.obligation,
                                              cand.repay_reserve, cand.withdraw_reserve,
                                              obl.owner, TokenProgram>>,
                               args |-> <<liquidity, Big(0)>>],
                       largest_borrow |-> largest_borrow,
                       largest_deposit |-> largest_deposit]

\* build_liquidation_ix, given the answer of get_account (read) and whether
\* the decoder's instruction builder accepts the accounts (builder_ok)
build_liquidation_ix(cand, read, builder_ok) ==
    IF ~read.rpc_ok THEN BuildErr("Failed to fetch obligation")
    ELSE IF ~decode_obligation(read.data) THEN BuildErr("Failed to decode obligation")
    ELSE LET obl == read.data.obligation
         IN  IF max_by_key(obl.borrows) = 0 THEN BuildErr("No borrows")
             ELSE IF max_by_key(obl.deposits) = 0 THEN BuildErr("No deposits")
             ELSE IF ~builder_ok THEN BuildErr("build")
             ELSE LET largest_borrow  == obl.borrows[max_by_key(obl.borrows)]
                      liquidity       == repay_amount(largest_borrow.amount)
                      largest_deposit == obl.deposits[max_by_key(obl.deposits)]
                  IN  [ok |-> TRUE, err |-> "",
                       ix |-> [program |-> "kamino_lending",
                               name |-> "liquidate_obligation",
                               accounts |-> <<cand.market, cand.obligation,
                                              cand.repay_reserve, cand.withdraw_reserve,
                                              obl.owner, TokenProgram>>,
                               args |-> <<liquidity, Big(0)>>],
                       largest_borrow |-> largest_borrow,
                       largest_deposit |-> largest_deposit]

-----------------------------------------------------------------------------
(* util.rs                                                                 *)

DefaultHash == "hash_default"          \* Hash::default(), set by Message::new

Blockhashes == {"hash1", "hash2"}      \* answers of get_latest_blockhash

CU_LIMIT == 300000
CU_PRICE == 2000
TIP_LAMPORTS == 5000

\* Keypair::sign_message: a signature is bound to the signer and to the bytes
\* of the message it was made over
Sign(keypair, msg) == [signer |-> keypair, message |-> msg]

NoTx ==
    [message |-> [instructions |-> <<>>, payer |-> "none", recent_blockhash |-> DefaultHash],
     signatures |-> <<>>]

\* a composition that puts the tip transfer ahead of the caller's instructions
full_ixs_tip_first(payer, ixs, cu_limit, cu_price, tip_account, tip_lamports) ==
    << [program |-> "compute_budget", name |-> "set_compute_unit_limit",
        accounts |-> <<>>, args |-> <<Big(cu_limit)>>],
       [program |-> "compute_budget", name |-> "set_compute_unit_price",
        accounts |-> <<>>, args |-> <<Big(cu_price)>>],
       [program |-> "system", name |-> "transfer",
        accounts |-> <<payer, tip_account>>, args |-> <<Big(tip_lamports)>>] >>
    \o ixs

\* the instruction list composed by build_tx_with_tip
full_ixs(payer, ixs, cu_limit, cu_price, tip_account, tip_lamports) ==
    << [program |-> "compute_budget", name |-> "set_compute_unit_limit",
        accounts |-> <<>>, args |-> <<Big(cu_limit)>>],
       [program |-> "compute_budget", name |-> "set_compute_unit_price",
        accounts |-> <<>>, args |-> <<Big(cu_price)>>] >>
    \o ixs
    \o << [program |-> "system", name |-> "transfer",
           accounts |-> <<payer, tip_account>>, args |-> <<Big(tip_lamports)>>] >>

\* Message::new(&full_ixs, Some(&payer)), then VersionedTransaction::try_new
sign_tx(payer, ixs) ==
    LET msg == [instructions |-> ixs, payer |-> payer, recent_blockhash |-> DefaultHash]
    IN  [message |-> msg, signatures |-> <<Sign(payer, msg)>>]

\* tx.message.set_recent_blockhash(blockhash)
set_recent_blockhash(t, bh) ==
    [t EXCEPT !.message.recent_blockhash = bh]

\* build_tx_with_tip without the update of the recent blockhash
build_tx_unset_blockhash(payer, bh, ixs, cu_limit, cu_price, tip_account, tip_lamports, sign_ok) ==
    IF ~sign_ok THEN [ok |-> FALSE, tx |-> NoTx]
    ELSE [ok |-> TRUE,
          tx |-> sign_tx(payer, full_ixs(payer, ixs, cu_limit, cu_price,
                                         tip_account, tip_lamports))]

\* build_tx_with_tip; sign_ok: whether try_new accepts the signer set
build_tx_with_tip(payer, bh, ixs, cu_limit, cu_price, tip_account, tip_lamports, sign_ok) ==
    IF ~sign_ok THEN [ok |-> FALSE, tx |-> NoTx]
    ELSE [ok |-> TRUE,
          tx |-> set_recent_blockhash(
                     sign_tx(payer, full_ixs(payer, ixs, cu_limit, cu_price,
                                             tip_account, tip_lamports)),
                     bh)]

-----------------------------------------------------------------------------
(* main.rs: the main loop                                                  *)

NoRead == [rpc_ok |-> FALSE, data |-> Raw(FALSE, FALSE, NoObligation)]

\* answers of get_account
Reads == {NoRead} \cup { [rpc_ok |-> TRUE, data |-> d] : d \in RawPool }

NoBuilt == BuildErr("none")

NoHealth == [inf |-> FALSE, num |-> BZero, den |-> BZero]

\* (mutant) a failed cycle is followed by the sleep unless --once is given
on_cycle_error_retry(is_once) == IF is_once THEN "exit_err" ELSE "sleep"

\* `?` on fetch_latest_blockhash and find_liquidation_candidates: main returns Err
on_cycle_error(is_once) == "exit_err"

\* (mutant) `?` instead of the Err arm: main returns Err
on_candidate_error_abort(stage) == "exit_err"

\* the Err arms of the per-candidate matches: warn!, then the next candidate
on_candidate_error(stage) == "for_cand"

\* (mutant) the dry-run flag ignored
submits_always(is_dry_run) == TRUE

\* `if cli.dry_run { info!(..) } else { jito.send(..) }`
submits(is_dry_run) == ~is_dry_run

\* the sleep even when --once is given
after_cycle_always_sleep(is_once) == "sleep"

\* a break at the end of every iteration
after_cycle_always_break(is_once) == "exit_ok"

\* `if cli.once { break; }`, else the sleep
after_cycle(is_once) == IF is_once THEN "exit_ok" ELSE "sleep"

Attempt(i, outcome) == [cand |-> i, outcome |-> outcome]

Init ==
    /\ pc = "loop_top"
    /\ once \in BOOLEAN
    /\ dry_run \in BOOLEAN
    /\ cycle = 0
    /\ blockhash = DefaultHash
    /\ accs = <<>>
    /\ candidates = <<>>
    /\ idx = 0
    /\ fresh = NoRead
    /\ built = NoBuilt
    /\ tx = NoTx
    /\ attempts = <<>>
    /\ sent = <<>>
    /\ rpc_err = "none"
    /\ h_obl = NoObligation
    /\ h_out = NoHealth
    /\ bh_hist = [calls |-> 0, got |-> 0]
    /\ a_ixs = <<>>

\* line 95: a new iteration starts with fetch_latest_blockhash
FetchBlockhashOk ==
    /\ pc = "loop_top"
    /\ cycle < MaxCycles
    /\ \E bh \in Blockhashes : blockhash' = bh
    /\ cycle' = cycle + 1
    /\ pc' = "find"
    /\ bh_hist' = [calls |-> bh_hist.calls + 1, got |-> cycle + 1]
    /\ UNCHANGED <<once, dry_run, accs, candidates, idx, fresh, built, tx, attempts,
                   sent, rpc_err, h_obl, h_out, a_ixs>>

FetchBlockhashErr ==
    /\ pc = "loop_top"
    /\ cycle < MaxCycles
    /\ cycle' = cycle + 1
    /\ rpc_err' = "blockhash"
    /\ pc' = on_cycle_error(once)
    /\ bh_hist' = [bh_hist EXCEPT !.calls = bh_hist.calls + 1]
    /\ UNCHANGED <<once, dry_run, blockhash, accs, candidates, idx, fresh, built, tx,
                   attempts, sent, h_obl, h_out, a_ixs>>

\* a scan that drops the candidates whose obligation was submitted before
FindCandidatesOk_skip_submitted ==
    /\ pc = "find"
    /\ \E snapshot \in Snapshots :
          /\ accs' = snapshot
          /\ candidates' =
                 SelectSeq(find_liquidation_candidates(snapshot, MARKET),
                           LAMBDA c : \A k \in 1..Len(sent) : sent[k].obligation # c.obligation)
    /\ idx' = 1
    /\ pc' = "for_cand"
    /\ UNCHANGED <<once, dry_run, cycle, blockhash, fresh, built, tx, attempts, sent,
                   rpc_err, h_obl, h_out, bh_hist, a_ixs>>

\* line 98: find_liquidation_candidates
FindCandidatesOk ==
    /\ pc = "find"
    /\ \E snapshot \in Snapshots :
          /\ accs' = snapshot
          /\ candidates' = find_liquidation_candidates(snapshot, MARKET)
    /\ idx' = 1
    /\ pc' = "for_cand"
    /\ UNCHANGED <<once, dry_run, cycle, blockhash, fresh, built, tx, attempts, sent,
                   rpc_err, h_obl, h_out, bh_hist, a_ixs>>

FindCandidatesErr ==
    /\ pc = "find"
    /\ rpc_err' = "accounts"
    /\ pc' = on_cycle_error(once)
    /\ UNCHANGED <<once, dry_run, cycle, blockhash, accs, candidates, idx, fresh, built,
                   tx, attempts, sent, h_obl, h_out, bh_hist, a_ixs>>

\* line 104: build_liquidation_ix for the next candidate
BuildIx ==
    /\ pc = "for_cand"
    /\ idx <= Len(candidates)
    /\ \E read \in Reads, builder_ok \in BOOLEAN :
          LET r == build_liquidation_ix(candidates[idx], read, builder_ok)
          IN  IF r.ok
              THEN /\ pc' = "assemble"
                   /\ fresh' = read
                   /\ built' = r
                   /\ UNCHANGED <<idx, attempts>>
              ELSE /\ pc' = on_candidate_error("build")
                   /\ idx' = idx + 1
                   /\ attempts' = Append(attempts, Attempt(idx, "build_err"))
                   /\ UNCHANGED <<fresh, built>>
    /\ accs' = <<>>
    /\ UNCHANGED <<once, dry_run, cycle, blockhash, candidates, tx, sent, rpc_err,
                   h_obl, h_out, bh_hist, a_ixs>>

\* line 107: build_tx_with_tip
Assemble ==
    /\ pc = "assemble"
    /\ \E sign_ok \in BOOLEAN :
          LET r == build_tx_with_tip(Payer, blockhash, <<built.ix>>, CU_LIMIT, CU_PRICE,
                                     TipAccountPubkey, TIP_LAMPORTS, sign_ok)
          IN  IF r.ok
              THEN /\ pc' = "assembled"
                   /\ tx' = r.tx
                   /\ UNCHANGED <<idx, attempts, fresh, built>>
              ELSE /\ pc' = on_candidate_error("assemble")
                   /\ idx' = idx + 1
                   /\ attempts' = Append(attempts, Attempt(idx, "tx_err"))
                   /\ fresh' = NoRead
                   /\ built' = NoBuilt
                   /\ UNCHANGED tx
    /\ UNCHANGED <<once, dry_run, cycle, blockhash, accs, candidates, sent, rpc_err,
                   h_obl, h_out, bh_hist, a_ixs>>

\* lines 117-121: dry run, the transaction is only logged
DryRunLog ==
    /\ pc = "assembled"
    /\ ~submits(dry_run)
    /\ attempts' = Append(attempts, Attempt(idx, "dry_run"))
    /\ idx' = idx + 1
    /\ pc' = "for_cand"
    /\ fresh' = NoRead
    /\ built' = NoBuilt
    /\ tx' = NoTx
    /\ UNCHANGED <<once, dry_run, cycle, blockhash, accs, candidates, sent, rpc_err,
                   h_obl, h_out, bh_hist, a_ixs>>

\* a submission that is repeated for the same candidate when the relay fails
Send_retry_on_failure ==
    /\ pc = "assembled"
    /\ submits(dry_run)
    /\ sent' = Append(sent, [cycle |-> cycle, cand |-> idx,
                             obligation |-> candidates[idx].obligation,
                             blockhash |-> tx.message.recent_blockhash,
                             bundle_len |-> Len(<<tx>>)])
    /\ \E send_ok \in BOOLEAN :
          IF send_ok
          THEN /\ attempts' = Append(attempts, Attempt(idx, "submitted"))
               /\ idx' = idx + 1
               /\ pc' = "for_cand"
               /\ fresh' = NoRead
               /\ built' = NoBuilt
               /\ tx' = NoTx
          ELSE UNCHANGED <<attempts, idx, pc, fresh, built, tx>>
    /\ UNCHANGED <<once, dry_run, cycle, blockhash, accs, candidates, rpc_err,
                   h_obl, h_out, bh_hist, a_ixs>>

\* lines 123-139: jito.send(&[versioned_tx]), Ok or Err
Send ==
    /\ pc = "assembled"
    /\ submits(dry_run)
    /\ sent' = Append(sent, [cycle |-> cycle, cand |-> idx,
                             obligation |-> candidates[idx].obligation,
                             blockhash |-> tx.message.recent_blockhash,
                             bundle_len |-> Len(<<tx>>)])
    /\ \E send_ok \in BOOLEAN :
          attempts' = Append(attempts,
                             Attempt(idx, IF send_ok THEN "submitted" ELSE "send_err"))
    /\ idx' = idx + 1
    /\ pc' = "for_cand"
    /\ fresh' = NoRead
    /\ built' = NoBuilt
    /\ tx' = NoTx
    /\ UNCHANGED <<once, dry_run, cycle, blockhash, accs, candidates, rpc_err,
                   h_obl, h_out, bh_hist, a_ixs>>

\* line 149: the for loop is over
EndCycle ==
    /\ pc = "for_cand"
    /\ idx > Len(candidates)
    /\ pc' = after_cycle(once)
    /\ accs' = <<>>
    /\ UNCHANGED <<once, dry_run, cycle, blockhash, candidates, idx, fresh, built, tx,
                   attempts, sent, rpc_err, h_obl, h_out, bh_hist, a_ixs>>

\* line 152: the sleep is over, the iteration's locals go out of scope and
\* the loop starts again
Sleep ==
    /\ pc = "sleep"
    /\ pc' = "loop_top"
    /\ blockhash' = DefaultHash
    /\ candidates' = <<>>
    /\ idx' = 0
    /\ attempts' = <<>>
    /\ sent' = SelectSeq(sent, LAMBDA e : e.cycle = cycle)
    /\ UNCHANGED <<once, dry_run, cycle, accs, fresh, built, tx, rpc_err, h_obl, h_out, bh_hist, a_ixs>>

Next ==
    \/ FetchBlockhashOk
    \/ FetchBlockhashErr
    \/ FindCandidatesOk
    \/ FindCandidatesErr
    \/ BuildIx
    \/ Assemble
    \/ DryRunLog
    \/ Send
    \/ EndCycle
    \/ Sleep

Spec == Init /\ [][Next]_vars

\* main is one task: every RPC and relay call is awaited and answers (with a
\* value or an error, the clients have their own timeouts), and the sleep of
\* line 152 ends, so the loop takes its next step whenever it has one
SpecFair == Spec /\ WF_vars(Next)

-----------------------------------------------------------------------------
(* The health estimate on its own: estimate_health applied to an obligation *)
(* drawn from leg lists that include amounts beyond the f64 significand.    *)

TwoTo50 == <<4, 0, 0>>            \* 2^50
ThreeTwoTo52Plus1 == <<48, 0, 1>> \* 3 * 2^52 + 1
TwoTo54 == <<64, 0, 0>>           \* 2^54

HealthAmounts == {Big(0), Big(3), Big(4), TwoTo50, ThreeTwoTo52Plus1, TwoTo54}

HealthLegLists ==
    UNION { [1..n -> { [reserve |-> "rA", amount |-> a] : a \in HealthAmounts }]
            : n \in 0..MaxLegs }

InitHealth ==
    /\ pc = "health"
    /\ once = FALSE
    /\ dry_run = FALSE
    /\ cycle = 0
    /\ blockhash = DefaultHash
    /\ accs = <<>>
    /\ candidates = <<>>
    /\ idx = 0
    /\ fresh = NoRead
    /\ built = NoBuilt
    /\ tx = NoTx
    /\ attempts = <<>>
    /\ sent = <<>>
    /\ rpc_err = "none"
    /\ \E b \in HealthLegLists, d \in HealthLegLists : h_obl = Obl(MARKET, b, d)
    /\ h_out = NoHealth
    /\ bh_hist = [calls |-> 0, got |-> 0]
    /\ a_ixs = <<>>

EstimateHealth ==
    /\ pc = "health"
    /\ pc' = "health_done"
    /\ h_out' = estimate_health(h_obl)
    /\ UNCHANGED <<once, dry_run, cycle, blockhash, accs, candidates, idx, fresh, built,
                   tx, attempts, sent, rpc_err, h_obl, bh_hist, a_ixs>>

NextHealth == EstimateHealth

SpecHealth == InitHealth /\ [][NextHealth]_vars

\* estimate_health over obligations with few borrow legs and several deposit
\* legs, the amounts around 2^53 where f64 additions start to round
ThreeTwoTo51Plus1 == <<24, 0, 1>>  \* 3 * 2^51 + 1
TwoTo53Plus1 == <<32, 0, 1>>       \* 2^53 + 1
TwoTo53Plus2 == <<32, 0, 2>>       \* 2^53 + 2

MonoBorrowAmounts == {Big(0), Big(3), ThreeTwoTo51Plus1}

MonoDepositAmounts == {Big(1), Big(4), TwoTo53Plus1, TwoTo53Plus2}

LegLists(amounts, n) ==
    UNION { [1..k -> { [reserve |-> "rA", amount |-> a] : a \in amounts }] : k \in 0..n }

MonoBorrowLists == LegLists(MonoBorrowAmounts, MaxLegs - 1)

MonoDepositLists == LegLists(MonoDepositAmounts, MaxLegs + 1)

InitMono ==
    /\ pc = "health"
    /\ once = FALSE
    /\ dry_run = FALSE
    /\ cycle = 0
    /\ blockhash = DefaultHash
    /\ accs = <<>>
    /\ candidates = <<>>
    /\ idx = 0
    /\ fresh = NoRead
    /\ built = NoBuilt
    /\ tx = NoTx
    /\ attempts = <<>>
    /\ sent = <<>>
    /\ rpc_err = "none"
    /\ \E b \in MonoBorrowLists, d \in MonoDepositLists : h_obl = Obl(MARKET, b, d)
    /\ h_out = NoHealth
    /\ bh_hist = [calls |-> 0, got |-> 0]
    /\ a_ixs = <<>>

SpecMono == InitMono /\ [][NextHealth]_vars

-----------------------------------------------------------------------------
(* util.rs: build_tx_with_tip as a function of its instruction list        *)

MaxIxs == 3

\* caller instructions: a liquidation, and two that look exactly like the
\* instructions build_tx_with_tip adds itself
IxPool ==
    { [program |-> "kamino_lending", name |-> "liquidate_obligation",
       accounts |-> <<MARKET, "acct1", "rA", "rB", Owner, TokenProgram>>,
       args |-> <<Big(1), Big(0)>>],
      [program |-> "compute_budget", name |-> "set_compute_unit_price",
       accounts |-> <<>>, args |-> <<Big(CU_PRICE)>>],
      [program |-> "system", name |-> "transfer",
       accounts |-> <<Payer, TipAccountPubkey>>, args |-> <<Big(TIP_LAMPORTS)>>] }

IxLists == UNION { [1..n -> IxPool] : n \in 0..MaxIxs }

InitAssemble ==
    /\ pc = "build_tx"
    /\ once = FALSE
    /\ dry_run = FALSE
    /\ cycle = 0
    /\ blockhash \in Blockhashes
    /\ accs = <<>>
    /\ candidates = <<>>
    /\ idx = 0
    /\ fresh = NoRead
    /\ built = NoBuilt
    /\ tx = NoTx
    /\ attempts = <<>>
    /\ sent = <<>>
    /\ rpc_err = "none"
    /\ h_obl = Obl(MARKET, <<>>, <<>>)
    /\ h_out = NoHealth
    /\ bh_hist = [calls |-> 0, got |-> 0]
    /\ a_ixs \in IxLists

BuildTxWithTip ==
    /\ pc = "build_tx"
    /\ \E sign_ok \in BOOLEAN :
          LET r == build_tx_with_tip(Payer, blockhash, a_ixs, CU_LIMIT, CU_PRICE,
                                     TipAccountPubkey, TIP_LAMPORTS, sign_ok)
          IN  /\ pc' = IF r.ok THEN "build_tx_ok" ELSE "build_tx_err"
              /\ tx' = r.tx
    /\ UNCHANGED <<once, dry_run, cycle, blockhash, accs, candidates, idx, fresh, built,
                   attempts, sent, rpc_err, h_obl, h_out, bh_hist, a_ixs>>

NextAssemble == BuildTxWithTip

SpecAssemble == InitAssemble /\ [][NextAssemble]_vars

-----------------------------------------------------------------------------
(* Vocabulary of the properties.                                           *)

Range(f) == { f[i] : i \in DOMAIN f }

\* a signature verifies against the signer's key and the bytes of the message
SignatureValid(t) ==
    /\ Len(t.signatures) = 1
    /\ t.signatures[1] = Sign(t.message.payer, t.message)

\* position i holds a maximal amount and every later amount is smaller
IsLastMax(legs, i) ==
    /\ i \in 1..Len(legs)
    /\ \A j \in 1..Len(legs) : BLeq(legs[j].amount, legs[i].amount)
    /\ \A j \in (i + 1)..Len(legs) : BLess(legs[j].amount, legs[i].amount)

\* position i holds a maximal amount and every earlier amount is smaller
IsFirstMax(legs, i) ==
    /\ i \in 1..Len(legs)
    /\ \A j \in 1..Len(legs) : BLeq(legs[j].amount, legs[i].amount)
    /\ \A j \in 1..(i - 1) : BLess(legs[j].amount, legs[i].amount)

\* two different reserves share the maximal amount
HasTie(legs) ==
    \E i, j \in 1..Len(legs) :
        /\ i < j
        /\ IsFirstMax(legs, i)
        /\ legs[j].amount = legs[i].amount
        /\ legs[j].reserve # legs[i].reserve

\* the exact sum of the amounts, as an integer
RECURSIVE ExactSum(_)
ExactSum(legs) ==
    IF legs = <<>> THEN BZero ELSE BAdd(legs[1].amount, ExactSum(Tail(legs)))

\* the snapshot just scanned is still at hand
Scanned == pc = "for_cand" /\ idx = 1 /\ attempts = <<>> /\ accs # <<>>

\* the account of the snapshot a candidate was made from
AccountOf(pk) == CHOOSE a \in Range(accs) : a.pk = pk

Running == pc \in {"loop_top", "find", "for_cand", "assemble", "assembled", "sleep"}

-----------------------------------------------------------------------------
(* C1: the transaction returned by build_tx_with_tip carries the supplied   *)
(* blockhash and its signature is a valid signature by the payer over the  *)
(* message as returned.                                                     *)
C1_ReturnedTxSignatureValid ==
    pc = "assembled" =>
        /\ tx.message.recent_blockhash = blockhash
        /\ SignatureValid(tx)

-----------------------------------------------------------------------------
(* C2 as stated: among equal maximal amounts the first-listed leg is the   *)
(* one chosen, in candidate selection and in the build step.                *)
C2_FirstMaxChosen ==
    /\ Scanned =>
          \A k \in 1..Len(candidates) :
              LET o == AccountOf(candidates[k].obligation).data.obligation
              IN  /\ \E i \in 1..Len(o.borrows) :
                        IsFirstMax(o.borrows, i)
                        /\ candidates[k].repay_reserve = o.borrows[i].reserve
                  /\ \E i \in 1..Len(o.deposits) :
                        IsFirstMax(o.deposits, i)
                        /\ candidates[k].withdraw_reserve = o.deposits[i].reserve
    /\ pc = "assemble" =>
          LET o == fresh.data.obligation
          IN  /\ \E i \in 1..Len(o.borrows) :
                    IsFirstMax(o.borrows, i) /\ built.largest_borrow = o.borrows[i]
              /\ \E i \in 1..Len(o.deposits) :
                    IsFirstMax(o.deposits, i) /\ built.largest_deposit = o.deposits[i]

(* C2 as amended: among equal maximal amounts the last-listed leg is the   *)
(* one chosen, in candidate selection and in the build step.                *)
C2_LastMaxChosen ==
    /\ Scanned =>
          \A k \in 1..Len(candidates) :
              LET o == AccountOf(candidates[k].obligation).data.obligation
              IN  /\ \E i \in 1..Len(o.borrows) :
                        IsLastMax(o.borrows, i)
                        /\ candidates[k].repay_reserve = o.borrows[i].reserve
                  /\ \E i \in 1..Len(o.deposits) :
                        IsLastMax(o.deposits, i)
                        /\ candidates[k].withdraw_reserve = o.deposits[i].reserve
    /\ pc = "assemble" =>
          LET o == fresh.data.obligation
          IN  /\ \E i \in 1..Len(o.borrows) :
                    IsLastMax(o.borrows, i) /\ built.largest_borrow = o.borrows[i]
              /\ \E i \in 1..Len(o.deposits) :
                    IsLastMax(o.deposits, i) /\ built.largest_deposit = o.deposits[i]

\* a candidate was selected from an obligation with tied borrow legs and tied deposit legs
C2_Witness ==
    /\ Scanned
    /\ \E k \in 1..Len(candidates) :
          LET o == AccountOf(candidates[k].obligation).data.obligation
          IN  HasTie(o.borrows) /\ HasTie(o.deposits)

-----------------------------------------------------------------------------
(* C3 as stated: in loop mode a failed blockhash or snapshot fetch leaves  *)
(* the process running (the cycle is abandoned, the next one follows).      *)
C3_LoopModeSurvivesProviderError ==
    (~once /\ rpc_err # "none") => Running

(* C3 as amended: a failed blockhash or snapshot fetch ends the process    *)
(* with an error, in loop mode as in single-pass mode; no sleep and no     *)
(* further cycle follow.                                                    *)
C3_ProviderErrorTerminates ==
    rpc_err # "none" => pc = "exit_err"

\* loop mode, second cycle, the snapshot fetch failed
C3_Witness ==
    ~once /\ cycle = 2 /\ rpc_err = "accounts" /\ pc = "exit_err"

-----------------------------------------------------------------------------
(* C4: a failure of the build, assemble or send stage of one candidate     *)
(* never ends the cycle; the candidates are attempted once each, in list    *)
(* order, whatever the outcomes of the earlier ones.                        *)
C4_CandidateFailureIsolated ==
    /\ pc = "exit_err" => rpc_err # "none"
    /\ \A k \in 1..Len(attempts) : attempts[k].cand = k
    /\ Len(attempts) <= Len(candidates)
    /\ pc = "for_cand" => idx = Len(attempts) + 1
    /\ pc \in {"assemble", "assembled"} => idx = Len(attempts) + 1 /\ idx <= Len(candidates)
    /\ pc \in {"sleep", "exit_ok"} => Len(attempts) = Len(candidates)

\* a cycle completed in which the first candidate failed and the second was submitted
C4_Witness ==
    /\ pc \in {"sleep", "exit_ok"}
    /\ Len(attempts) = 2
    /\ attempts[1].outcome \in {"build_err", "tx_err", "send_err"}
    /\ attempts[2].outcome = "submitted"

-----------------------------------------------------------------------------
(* C5: in dry-run mode JitoSender::send is never called; every candidate   *)
(* stops at the latest once its transaction is assembled.                   *)
C5_DryRunNeverSends ==
    dry_run =>
        /\ sent = <<>>
        /\ \A k \in 1..Len(attempts) :
              attempts[k].outcome \in {"build_err", "tx_err", "dry_run"}

\* a dry-run cycle in which two transactions were assembled
C5_Witness ==
    /\ dry_run
    /\ Len(attempts) = 2
    /\ attempts[1].outcome = "dry_run"
    /\ attempts[2].outcome = "dry_run"

-----------------------------------------------------------------------------
(* C6: the liquidation instruction acts on the legs recomputed from the    *)
(* build-time read: its repay reserve is the reserve of the fresh largest  *)
(* borrow leg, whose amount sized the repayment, and its withdraw reserve  *)
(* is the reserve of the fresh largest deposit leg.                         *)
C6_IxActsOnFreshLegs ==
    pc = "assemble" =>
        /\ built.ix.accounts[3] = built.largest_borrow.reserve
        /\ built.ix.accounts[4] = built.largest_deposit.reserve

-----------------------------------------------------------------------------
(* Exact totals of the obligation handed to estimate_health.                *)

ExactBorrow == ExactSum(h_obl.borrows)

ExactDeposit == ExactSum(h_obl.deposits)

\* the cases of the estimate and the resulting test against 1.0, over the
\* exact totals.  Of the quotient only what survives the final f64 division
\* unchanged is compared: whether it is infinite, 0.0, or below 1.0.
HealthAsSpecified ==
    /\ ExactBorrow = BZero => h_out = F64Infinity
    /\ (ExactBorrow # BZero /\ ExactDeposit = BZero) => h_out = F64Zero
    /\ (ExactBorrow # BZero /\ ExactDeposit # BZero) => (~h_out.inf /\ h_out.num # BZero)
    /\ LessThanOne(h_out) <=>
          (ExactBorrow # BZero /\ BLess(BMul(ExactDeposit, 3), BMul(ExactBorrow, 4)))

\* the quotient is that of the exact totals: (deposit x 3/4) / borrow
RatioOfExactTotals ==
    (ExactBorrow # BZero /\ ExactDeposit # BZero) =>
        h_out = [inf |-> FALSE, num |-> BMul(ExactDeposit, 3), den |-> ExactBorrow]

\* both totals are below 2^51: every amount, both sums and deposit * 0.75
\* are then exact in f64
TotalsExactInF64 ==
    BBitLen(ExactBorrow) <= F64_MANTISSA_DIGITS - 2
    /\ BBitLen(ExactDeposit) <= F64_MANTISSA_DIGITS - 2

(* C7 as stated: for every obligation the estimate is +infinity without    *)
(* borrow, 0.0 with borrow and no deposit, (deposit x 0.75) / borrow       *)
(* otherwise, hence below 1.0 exactly when borrow > 0 and 3 x deposit <    *)
(* 4 x borrow.                                                              *)
C7_HealthAsSpecified ==
    pc = "health_done" => HealthAsSpecified

(* C7 as amended: the same, for obligations whose total borrow and total   *)
(* deposit are both below 2^51.                                             *)
C7_HealthAsSpecifiedWhenExact ==
    (pc = "health_done" /\ TotalsExactInF64) => (HealthAsSpecified /\ RatioOfExactTotals)

\* an estimate below 1.0 from totals of 2^50 and more, both below 2^51
C7_Witness ==
    /\ pc = "health_done"
    /\ TotalsExactInF64
    /\ BLess(TwoTo50, ExactBorrow)
    /\ BLess(TwoTo50, ExactDeposit)
    /\ LessThanOne(h_out)

-----------------------------------------------------------------------------
\* an account of the snapshot that the scan takes for an obligation
IsObligationAt(i) == ~accs[i].data.reserve_ok /\ accs[i].data.obligation_ok

\* the reserve of the largest leg is the default key, or there is no leg
LargestUnresolved(legs) ==
    \/ legs = <<>>
    \/ \E i \in 1..Len(legs) : IsLastMax(legs, i) /\ legs[i].reserve = DefaultPubkey

\* below 1.0, over the exact totals (the amounts of the snapshots are small)
Unhealthy(o) ==
    /\ ExactSum(o.borrows) # BZero
    /\ BLess(BMul(ExactSum(o.deposits), 3), BMul(ExactSum(o.borrows), 4))

(* C8: no candidate carries the default key as repay or withdraw reserve:  *)
(* an obligation with an empty borrow or deposit list, or whose largest    *)
(* leg has the default key, yields no candidate, and no instruction is     *)
(* built or assembled with a default reserve key.                           *)
C8_NoNullReserveCandidate ==
    /\ \A k \in 1..Len(candidates) :
          /\ candidates[k].repay_reserve # DefaultPubkey
          /\ candidates[k].withdraw_reserve # DefaultPubkey
    /\ Scanned =>
          \A i \in 1..Len(accs) :
              (IsObligationAt(i)
               /\ (LargestUnresolved(accs[i].data.obligation.borrows)
                   \/ LargestUnresolved(accs[i].data.obligation.deposits)))
              => \A k \in 1..Len(candidates) : candidates[k].obligation # accs[i].pk
    /\ pc \in {"assemble", "assembled"} =>
          /\ built.ix.accounts[3] # DefaultPubkey
          /\ built.ix.accounts[4] # DefaultPubkey

\* a scan that met an unhealthy target-market obligation without deposits and
\* one whose largest borrow leg has the default key
C8_Witness ==
    /\ Scanned
    /\ Len(accs) = 2
    /\ candidates = <<>>
    /\ \A i \in 1..2 :
          IsObligationAt(i)
          /\ accs[i].data.obligation.lending_market = MARKET
          /\ Unhealthy(accs[i].data.obligation)
    /\ accs[1].data.obligation.deposits = <<>>
    /\ accs[2].data.obligation.borrows # <<>>
    /\ LargestUnresolved(accs[2].data.obligation.borrows)

-----------------------------------------------------------------------------
\* the scan emits a candidate for the account at position i
Eligible(i) ==
    /\ IsObligationAt(i)
    /\ accs[i].data.obligation.lending_market = MARKET
    /\ Unhealthy(accs[i].data.obligation)
    /\ ~LargestUnresolved(accs[i].data.obligation.borrows)
    /\ ~LargestUnresolved(accs[i].data.obligation.deposits)

\* the position in the snapshot of the account a candidate names
PositionOf(pk) == CHOOSE i \in 1..Len(accs) : accs[i].pk = pk

(* C9: the scan emits a candidate for an obligation exactly when it is of  *)
(* the target market, its estimate is below 1.0 and both largest reserve   *)
(* keys are non-null; the candidates are in the order of their accounts in *)
(* the snapshot.                                                            *)
C9_CandidatesExactlyEligibleInOrder ==
    Scanned =>
        /\ \A k \in 1..Len(candidates) :
              /\ \E i \in 1..Len(accs) : accs[i].pk = candidates[k].obligation
              /\ Eligible(PositionOf(candidates[k].obligation))
              /\ candidates[k].market = MARKET
        /\ \A i \in 1..Len(accs) :
              Eligible(i) => \E k \in 1..Len(candidates) : candidates[k].obligation = accs[i].pk
        /\ \A k, l \in 1..Len(candidates) :
              k < l => PositionOf(candidates[k].obligation) < PositionOf(candidates[l].obligation)

\* two different candidates, in snapshot order
C9_Witness ==
    /\ Scanned
    /\ Len(candidates) = 2
    /\ candidates[1].obligation = accs[1].pk
    /\ candidates[2].obligation = accs[2].pk
    /\ candidates[1].repay_reserve # candidates[2].repay_reserve

\* the obligation of the target market yields a candidate, the same one in
\* another market yields none
C9_WitnessOtherMarket ==
    /\ Scanned
    /\ Len(accs) = 2
    /\ accs[1].data.obligation = Obl(OTHER_MARKET, <<Leg("rA", 1000)>>, <<Leg("rB", 500)>>)
    /\ accs[2].data.obligation = Obl(MARKET, <<Leg("rA", 1000)>>, <<Leg("rB", 500)>>)
    /\ IsObligationAt(1) /\ IsObligationAt(2)
    /\ Len(candidates) = 1
    /\ candidates[1].obligation = accs[2].pk

-----------------------------------------------------------------------------
\* the largest borrow amount of the build-time read
FreshLargestBorrow ==
    CHOOSE a \in { l.amount : l \in Range(fresh.data.obligation.borrows) } :
        \A l \in Range(fresh.data.obligation.borrows) : BLeq(l.amount, a)

BuiltRepay == built.ix.args[1]

(* C10: the repay amount of the built instruction is the largest borrow    *)
(* amount of the build-time read divided by 5, truncated (1000 gives 200,  *)
(* 7 gives 1); it never exceeds that amount and is 0 exactly when the      *)
(* amount is below 5.                                                       *)
C10_RepayIsFifthOfFreshLargest ==
    pc = "assemble" =>
        /\ BLeq(BMul(BuiltRepay, 5), FreshLargestBorrow)
        /\ BLess(FreshLargestBorrow, BAdd(BMul(BuiltRepay, 5), Big(5)))
        /\ BLeq(BuiltRepay, FreshLargestBorrow)
        /\ BuiltRepay = BZero <=> BLess(FreshLargestBorrow, Big(5))
        /\ FreshLargestBorrow = Big(1000) => BuiltRepay = Big(200)
        /\ FreshLargestBorrow = Big(7) => BuiltRepay = Big(1)

\* an instruction built for a candidate selected with a largest borrow of 1000
\* whose fresh read has a largest borrow of 7
C10_Witness ==
    /\ pc = "assemble"
    /\ candidates[idx].repay_reserve = "rA"
    /\ FreshLargestBorrow = Big(7)
    /\ fresh.data.obligation.borrows[1].reserve = "rC"
    /\ BuiltRepay = Big(1)

-----------------------------------------------------------------------------
(* C11: transaction assembly                                               *)

ComputeUnitLimitIx ==
    [program |-> "compute_budget", name |-> "set_compute_unit_limit",
     accounts |-> <<>>, args |-> <<Big(CU_LIMIT)>>]

ComputeUnitPriceIx ==
    [program |-> "compute_budget", name |-> "set_compute_unit_price",
     accounts |-> <<>>, args |-> <<Big(CU_PRICE)>>]

TipTransferIx ==
    [program |-> "system", name |-> "transfer",
     accounts |-> <<Payer, TipAccountPubkey>>, args |-> <<Big(TIP_LAMPORTS)>>]

\* `is` is [limit, price], then L position by position, then one tip transfer
AssembledAround(is, L) ==
    /\ Len(is) = Len(L) + 3
    /\ is[1] = ComputeUnitLimitIx
    /\ is[2] = ComputeUnitPriceIx
    /\ \A i \in 1..Len(L) : is[2 + i] = L[i]
    /\ is[Len(L) + 3] = TipTransferIx

\* C11: for every caller instruction list L, the transaction returned by
\* build_tx_with_tip holds exactly the compute-unit limit, the compute-unit
\* price, L in its original order and then one tip transfer from the signer to
\* the tip account; in the main loop L is the one liquidation instruction, so
\* that instruction and the tip transfer are in the same transaction.
C11_InstructionsAssembledInOrder ==
    /\ pc = "build_tx_ok" => AssembledAround(tx.message.instructions, a_ixs)
    /\ pc = "assembled" => AssembledAround(tx.message.instructions, <<built.ix>>)

\* a list of three caller instructions, one of them equal to the tip transfer
\* and one to the price instruction, has been assembled
C11_Witness ==
    /\ pc = "build_tx_ok"
    /\ Len(a_ixs) = 3
    /\ a_ixs[1] = TipTransferIx
    /\ a_ixs[2].name = "liquidate_obligation"
    /\ a_ixs[3] = ComputeUnitPriceIx
    /\ Len(tx.message.instructions) = 6

-----------------------------------------------------------------------------
(* C12: stale candidates                                                   *)

\* the build-time read of the obligation was answered, and the account does not
\* decode as an obligation or has no borrow or no deposit
StaleRead(read) ==
    /\ read.rpc_ok
    /\ \/ ~read.data.obligation_ok
       \/ read.data.obligation.borrows = <<>>
       \/ read.data.obligation.deposits = <<>>

SentFor(c, k) == { j \in 1..Len(sent) : sent[j].cycle = c /\ sent[j].cand = k }

\* C12: when the build-time read of a candidate's obligation cannot be decoded
\* or has an empty borrow list or an empty deposit list, build_liquidation_ix
\* returns an error for it; the main loop reaches the assembly only with a
\* read that is none of these, and a candidate whose build failed has no
\* transaction and no submission in this cycle.
C12_StaleCandidateFailsCleanly ==
    /\ (pc = "for_cand" /\ idx <= Len(candidates)) =>
           \A read \in Reads, builder_ok \in BOOLEAN :
               StaleRead(read) =>
                   ~build_liquidation_ix(candidates[idx], read, builder_ok).ok
    /\ pc \in {"assemble", "assembled"} => fresh.rpc_ok /\ ~StaleRead(fresh)
    /\ pc = "for_cand" => tx = NoTx /\ built = NoBuilt
    /\ \A k \in 1..Len(attempts) :
           attempts[k].outcome = "build_err" => SentFor(cycle, attempts[k].cand) = {}

\* the build of the first candidate failed, the second one was submitted, and
\* the cycle is over with no submission for the first
C12_Witness ==
    /\ pc = "sleep"
    /\ Len(candidates) = 2
    /\ Len(attempts) = 2
    /\ attempts[1] = Attempt(1, "build_err")
    /\ attempts[2] = Attempt(2, "submitted")
    /\ SentFor(cycle, 1) = {}
    /\ SentFor(cycle, 2) # {}

-----------------------------------------------------------------------------
(* C13: single-pass mode                                                   *)

Terminated == pc \in {"exit_ok", "exit_err"}

EachCandidateOnce ==
    /\ Len(attempts) = Len(candidates)
    /\ \A k \in 1..Len(attempts) : attempts[k].cand = k

\* C13: with --once, and every network call answering, the run ends: it never
\* sleeps and never starts a second iteration, it fetches at most one
\* checkpoint, and when the checkpoint and the snapshot were fetched it ends
\* normally after exactly one cycle in which each candidate was processed
\* once, whatever the outcomes of the candidates were.
C13_SinglePassTerminates ==
    /\ [](once => /\ pc # "sleep"
                  /\ cycle <= 1
                  /\ bh_hist.calls <= 1
                  /\ (pc = "loop_top" => cycle = 0)
                  /\ (pc = "exit_err" => rpc_err # "none")
                  /\ (pc \in {"for_cand", "assemble", "assembled", "exit_ok"} =>
                         cycle = 1 /\ bh_hist.calls = 1 /\ rpc_err = "none")
                  /\ (pc = "exit_ok" => EachCandidateOnce))
    /\ (once ~> Terminated)

\* a single pass ended normally after two candidates with different outcomes
C13_Witness ==
    /\ once
    /\ pc = "exit_ok"
    /\ cycle = 1
    /\ Len(candidates) = 2
    /\ attempts[1].outcome = "send_err"
    /\ attempts[2].outcome = "build_err"

-----------------------------------------------------------------------------
(* C14: loop mode                                                          *)

SentInCycle(c) == { j \in 1..Len(sent) : sent[j].cycle = c }

\* C14: in loop mode a cycle whose checkpoint and snapshot were fetched is
\* followed by the sleep, whatever happens per candidate, the sleep by the
\* start of the next iteration, and that by the next checkpoint fetch; a cycle
\* with no candidate builds, assembles and submits nothing and goes to the
\* sleep without an error.
C14_LoopModeCycleCompletes ==
    /\ [](( ~once /\ pc = "for_cand") => <>(pc = "sleep"))
    /\ []((pc = "sleep") => <>(pc = "loop_top" /\ cycle > 0))
    /\ []((pc = "loop_top" /\ cycle > 0 /\ cycle < MaxCycles) =>
              <>(pc \in {"find", "exit_err"}))
    /\ [](pc \in {"assemble", "assembled"} => candidates # <<>>)
    /\ []((pc \in {"for_cand", "sleep"} /\ candidates = <<>>) =>
              /\ attempts = <<>>
              /\ built = NoBuilt
              /\ tx = NoTx
              /\ SentInCycle(cycle) = {}
              /\ rpc_err = "none")
    /\ [][(~once /\ pc = "for_cand" /\ candidates = <<>>) => pc' = "sleep"]_vars

\* the second cycle of a loop-mode run found no candidate and is sleeping
C14_Witness ==
    /\ ~once
    /\ cycle = 2
    /\ pc = "sleep"
    /\ candidates = <<>>
    /\ attempts = <<>>

-----------------------------------------------------------------------------
(* C15: monotonicity of the health estimate                                *)

\* the order of two estimates as far as the final f64 division keeps it for
\* certain: 0.0, then the positive values below 1.0, then the finite values
\* from 1.0 on, then +infinity
HealthClass(h) ==
    IF h.inf THEN 3
    ELSE IF h.num = BZero THEN 0
    ELSE IF LessThanOne(h) THEN 1
    ELSE 2

\* h1 <= h2 for two estimates with the same borrow total or the same deposit
\* total, as quotients before the final division (which is monotone)
HealthLeq(h1, h2) ==
    \/ h2.inf
    \/ ~h1.inf /\ h1.num = BZero
    \/ ~h1.inf /\ h1.den = h2.den /\ BLeq(h1.num, h2.num)
    \/ ~h1.inf /\ h1.num = h2.num /\ BLeq(h2.den, h1.den)

WithDeposits(d) == Obl(MARKET, h_obl.borrows, d)

WithBorrows(b) == Obl(MARKET, b, h_obl.deposits)

\* the total is below 2^53: the amounts and every partial sum are exact in f64
SumExactInF64(legs) == BBitLen(ExactSum(legs)) <= F64_MANTISSA_DIGITS

(* C15 as stated: raising the total deposit of an obligation with total     *)
(* borrow > 0 never lowers the estimate, and raising the total borrow with   *)
(* the total deposit fixed never raises it, the 0.0 and +infinity cases      *)
(* included.                                                                 *)
C15_HealthMonotone ==
    pc = "health_done" =>
        /\ ExactBorrow # BZero =>
               \A d \in MonoDepositLists :
                   BLeq(ExactDeposit, ExactSum(d)) =>
                       HealthClass(h_out) <= HealthClass(estimate_health(WithDeposits(d)))
        /\ \A b \in MonoBorrowLists :
               BLeq(ExactBorrow, ExactSum(b)) =>
                   HealthClass(estimate_health(WithBorrows(b))) <= HealthClass(h_out)

\* C15: for obligations whose total borrow and total deposit stay below 2^53,
\* raising the total deposit with the total borrow (> 0) fixed never lowers
\* the estimate, and raising the total borrow with the total deposit fixed
\* never raises it, the 0.0 and +infinity cases included.
C15_HealthMonotoneWhenExact ==
    (pc = "health_done" /\ SumExactInF64(h_obl.borrows) /\ SumExactInF64(h_obl.deposits)) =>
        /\ ExactBorrow # BZero =>
               \A d \in MonoDepositLists :
                   (SumExactInF64(d) /\ BLeq(ExactDeposit, ExactSum(d))) =>
                       HealthLeq(h_out, estimate_health(WithDeposits(d)))
        /\ \A b \in MonoBorrowLists :
               (SumExactInF64(b) /\ BLeq(ExactBorrow, ExactSum(b))) =>
                   HealthLeq(estimate_health(WithBorrows(b)), h_out)

\* borrow 3, deposit 1: the estimate is below 1.0, and it is not any more
\* with the deposit raised to 4
C15_Witness ==
    /\ pc = "health_done"
    /\ ExactBorrow = Big(3)
    /\ ExactDeposit = Big(1)
    /\ LessThanOne(h_out)
    /\ ~LessThanOne(estimate_health(WithDeposits(<<Leg("rA", 4)>>)))
    /\ h_out # estimate_health(WithDeposits(<<Leg("rA", 4)>>))

-----------------------------------------------------------------------------
(* C16: submissions within a cycle                                         *)

\* C16: within one cycle jito.send is called at most once per candidate and at
\* most once per obligation, in the order of the candidates; a candidate whose
\* submission failed has exactly one call, like one whose submission was
\* accepted; and every bundle holds exactly one transaction.
C16_OneSubmissionPerCandidate ==
    /\ \A i, j \in 1..Len(sent) :
           (i < j /\ sent[i].cycle = sent[j].cycle) =>
               /\ sent[i].cand < sent[j].cand
               /\ sent[i].obligation # sent[j].obligation
    /\ \A j \in 1..Len(sent) : sent[j].bundle_len = 1
    /\ \A j \in SentInCycle(cycle) :
           pc \in {"for_cand", "assemble", "assembled", "sleep", "exit_ok"} =>
           /\ sent[j].cand \in 1..Len(attempts)
           /\ attempts[sent[j].cand].outcome \in {"submitted", "send_err"}
           /\ sent[j].obligation = candidates[sent[j].cand].obligation
    /\ \A k \in 1..Len(attempts) :
           attempts[k].outcome \in {"submitted", "send_err"} =>
               Cardinality(SentFor(cycle, attempts[k].cand)) = 1

\* the relay refused the first candidate's bundle and accepted the second's:
\* two calls in the cycle, one for each
C16_Witness ==
    /\ pc = "sleep"
    /\ Len(attempts) = 2
    /\ attempts[1] = Attempt(1, "send_err")
    /\ attempts[2] = Attempt(2, "submitted")
    /\ Cardinality(SentInCycle(cycle)) = 2

-----------------------------------------------------------------------------
(* C17: one checkpoint per cycle                                           *)

\* C17: every iteration calls fetch_latest_blockhash exactly once, before the
\* scan and before any candidate is built; the blockhash at hand while the
\* candidates are processed is the one fetched in this iteration, and every
\* transaction assembled or submitted in the iteration carries it.
C17_TxCarriesCycleCheckpoint ==
    /\ bh_hist.calls = cycle
    /\ pc \in {"find", "for_cand", "assemble", "assembled"} =>
           /\ bh_hist.got = cycle
           /\ blockhash \in Blockhashes
    /\ pc = "assembled" => tx.message.recent_blockhash = blockhash
    /\ pc \in {"for_cand", "assemble", "assembled", "sleep", "exit_ok"} =>
           \A j \in SentInCycle(cycle) : sent[j].blockhash = blockhash

\* the second cycle has assembled a transaction with its own checkpoint, which
\* differs from the one the first cycle's submission carried
C17_Witness ==
    /\ cycle = 2
    /\ pc = "assembled"
    /\ bh_hist = [calls |-> 2, got |-> 2]
    /\ tx.message.recent_blockhash = blockhash
    /\ \E j \in SentInCycle(1) : sent[j].blockhash # blockhash

-----------------------------------------------------------------------------
(* C18: account classification                                             *)

Occurrences(seq, P(_)) == Cardinality({ k \in 1..Len(seq) : P(seq[k]) })

\* C18: of the snapshot just scanned, an account that decodes as a reserve is
\* once among the reserves and never among the obligations, even when it would
\* decode as an obligation too, and no candidate is made from it; an account
\* that decodes only as an obligation is once among the obligations, with its
\* decoded content, and not among the reserves; an account that decodes as
\* neither is in neither list, and the accounts after it are classified all
\* the same.
C18_ClassifiedOnceReserveFirst ==
    Scanned =>
        LET ress == classify_reserves(accs, 1)
            obls == classify_obligations(accs, 1)
        IN  /\ Len(ress) + Len(obls) <= Len(accs)
            /\ \A i \in 1..Len(accs) :
                   LET inRess == Occurrences(ress, LAMBDA pk : pk = accs[i].pk)
                       inObls == Occurrences(obls, LAMBDA o : o.pk = accs[i].pk)
                   IN  /\ accs[i].data.reserve_ok => inRess = 1 /\ inObls = 0
                       /\ (~accs[i].data.reserve_ok /\ accs[i].data.obligation_ok) =>
                              /\ inRess = 0
                              /\ inObls = 1
                              /\ \E k \in 1..Len(obls) :
                                     obls[k] = [pk |-> accs[i].pk,
                                                obl |-> accs[i].data.obligation]
                       /\ (~accs[i].data.reserve_ok /\ ~accs[i].data.obligation_ok) =>
                              inRess = 0 /\ inObls = 0
            /\ \A k \in 1..Len(candidates) :
                   ~AccountOf(candidates[k].obligation).data.reserve_ok

\* the first account decodes both as a reserve and as an unhealthy obligation
\* of the market, the second one only as such an obligation: the one
\* candidate is the second account
C18_Witness ==
    /\ Scanned
    /\ Len(accs) = 2
    /\ accs[1].data.reserve_ok /\ accs[1].data.obligation_ok
    /\ accs[1].data.obligation.lending_market = MARKET
    /\ Unhealthy(accs[1].data.obligation)
    /\ Eligible(2)
    /\ Len(candidates) = 1
    /\ candidates[1].obligation = accs[2].pk

\* the first account decodes as neither, the second is still classified and
\* selected
C18_WitnessUndecodable ==
    /\ Scanned
    /\ Len(accs) = 2
    /\ ~accs[1].data.reserve_ok /\ ~accs[1].data.obligation_ok
    /\ Eligible(2)
    /\ Len(candidates) = 1
    /\ candidates[1].obligation = accs[2].pk

-----------------------------------------------------------------------------
(* C19: no deduplication across cycles                                     *)

SubmittedInCycle(c, pk) == \E j \in SentInCycle(c) : sent[j].obligation = pk

\* C19: an obligation submitted in the previous cycle is a candidate again in
\* this cycle whenever this cycle's snapshot shows it eligible, and once its
\* transaction is assembled the submission is made again: nothing the loop
\* keeps about earlier submissions prevents either.
C19_NoCrossCycleDedup ==
    /\ (Scanned /\ cycle > 1) =>
           \A i \in 1..Len(accs) :
               (Eligible(i) /\ SubmittedInCycle(cycle - 1, accs[i].pk)) =>
                   \E k \in 1..Len(candidates) : candidates[k].obligation = accs[i].pk
    /\ (pc = "assembled" /\ ~dry_run /\ cycle > 1
           /\ SubmittedInCycle(cycle - 1, candidates[idx].obligation)) =>
           ENABLED Send

\* acct1 was submitted in the first cycle and again in the second
C19_Witness ==
    /\ cycle = 2
    /\ SubmittedInCycle(1, "acct1")
    /\ SubmittedInCycle(2, "acct1")

=============================================================================
